---- MODULE Spec2Model ----
(***************************************************************************)
(* A model of bin/phibers.py: the dyad (2-mer) feature extraction and the  *)
(* scoring pipeline of start().                                            *)
(*                                                                         *)
(* A Python string is a sequence of one-character strings, so that         *)
(* str.count and ''.join are computed, not assumed.  A Python dict is an   *)
(* insertion-ordered pair (keys, vals).  A pandas DataFrame is a record    *)
(* (index, columns, data) with data[i][j] the cell of row i, column j.     *)
(***************************************************************************)
EXTENDS Integers, Sequences, FiniteSets, TLC

VARIABLES
    pc,            \* position of the run inside start()
    kind,          \* "file" or "dir": what os.path.isfile(source) answers
    fastas,        \* the list of records get_fastas has built so far
    expected,      \* history: concatenation of the complete lists of the files that parsed
    partial_seen,  \* history: some file failed after yielding at least one record
    two_mers,      \* the value of two_mers in start() (<<>> before line 86)
    df,            \* two_mer_df
    model_outcome, \* what the model artifact did in this run: "none", "ok", "load_failed", "predict_failed"
    model_loaded,  \* load(model_source) returned
    predict_arg,   \* the frames model.predict was called with, in call order
    prediction,    \* the array make_prediction returned (<<>> before)
    predicted,     \* make_prediction returned
    error,         \* the exception that left start(), "none" if none
    output,        \* the output file: [written, rows]
    sequence,      \* count_two_mers called alone: its sequence argument
    dictionary,    \* count_two_mers called alone: the dictionary it returned
    cpc            \* count_two_mers called alone: position

vars == <<pc, kind, fastas, expected, partial_seen, two_mers, df, model_outcome,
          model_loaded, predict_arg, prediction, predicted, error, output,
          sequence, dictionary, cpc>>

-----------------------------------------------------------------------------
(* Bounds of the model *)

\* longest sequence handed to count_two_mers when it is called alone
MaxSeqLen == 5
\* most records one file yields
MaxFileRecords == 2
\* most records a run collects
MaxRecords == 2

\* characters of the sequences count_two_mers is called on; "X" is no amino-acid letter
SeqChars == {"A", "C", "X"}
\* record identifiers
Ids == {"P1", "P2"}
\* sequences of the records of a run
SampleSeqs == { <<"A","C","A","C","A","C">>, <<"G","G","G","G","G","G">> }
\* labels the classifier gives
Labels == {0, 1}

-----------------------------------------------------------------------------
(* Python containers *)

EmptyDict == [keys |-> <<>>, vals |-> <<>>]

\* a dict assignment that keeps the value a key already has
DictSetKeepFirst(d, k, v) ==
    IF k \in DOMAIN d.vals
    THEN d
    ELSE [keys |-> Append(d.keys, k), vals |-> (k :> v) @@ d.vals]

\* d[k] = v on an insertion-ordered dict: a new key goes last, an old key keeps its place
DictSet(d, k, v) ==
    IF k \in DOMAIN d.vals
    THEN [keys |-> d.keys, vals |-> [x \in DOMAIN d.vals |-> IF x = k THEN v ELSE d.vals[x]]]
    ELSE [keys |-> Append(d.keys, k), vals |-> (k :> v) @@ d.vals]

\* the sequences over S of length at most n
RECURSIVE SeqsUpTo(_, _)
SeqsUpTo(S, n) ==
    IF n = 0 THEN { <<>> }
    ELSE LET shorter == SeqsUpTo(S, n - 1)
         IN  shorter \cup { Append(s, c) : s \in { t \in shorter : Len(t) = n - 1 }, c \in S }

RECURSIVE Flatten(_)
Flatten(rows) == IF rows = <<>> THEN <<>> ELSE Head(rows) \o Flatten(Tail(rows))

\* the first index >= start at which sub occurs in s, 0 when there is none
RECURSIVE Find(_, _, _)
Find(s, sub, start) ==
    IF start + Len(sub) - 1 > Len(s) THEN 0
    ELSE IF SubSeq(s, start, start + Len(sub) - 1) = sub THEN start
    ELSE Find(s, sub, start + 1)

\* a count that slides one position after a match (overlapping occurrences counted)
RECURSIVE CountFromOverlapping(_, _, _)
CountFromOverlapping(s, sub, pos) ==
    LET p == Find(s, sub, pos)
    IN  IF p = 0 THEN 0 ELSE 1 + CountFromOverlapping(s, sub, p + 1)

\* str.count(sub) from position pos: each match consumes its whole length
RECURSIVE CountFrom(_, _, _)
CountFrom(s, sub, pos) ==
    LET p == Find(s, sub, pos)
    IN  IF p = 0 THEN 0 ELSE 1 + CountFrom(s, sub, p + Len(sub))

StrCount(s, sub) == CountFrom(s, sub, 1)

-----------------------------------------------------------------------------
(* string_two_mers *)

LETTERS == << <<"A">>, <<"C">>, <<"D">>, <<"E">>, <<"F">>, <<"G">>, <<"H">>, <<"I">>,
              <<"K">>, <<"L">>, <<"M">>, <<"N">>, <<"P">>, <<"Q">>, <<"R">>, <<"S">>,
              <<"T">>, <<"V">>, <<"W">>, <<"Y">> >>

\* the comprehension with its two loops exchanged
TuplesInnerFirst ==
    Flatten([i \in 1..Len(LETTERS) |->
                [j \in 1..Len(LETTERS) |-> <<LETTERS[j], LETTERS[i]>>]])

\* [(letter1, letter2) for letter1 in LETTERS for letter2 in LETTERS]
Tuples ==
    Flatten([i \in 1..Len(LETTERS) |->
                [j \in 1..Len(LETTERS) |-> <<LETTERS[i], LETTERS[j]>>]])

\* ''.join(tupl)
Join(tupl) == Flatten(tupl)

string_two_mers == [k \in 1..Len(Tuples) |-> Join(Tuples[k])]

-----------------------------------------------------------------------------
(* count_two_mers *)

\* for mer in two_mers: dictionary[mer] = sequence.count(mer), over two_mers[lo..hi] in
\* order.  The range is walked as first half, then second half, the first half's
\* dictionary being computed (the test on left) before the second half starts, so that
\* the evaluation stays shallow; the assignments happen in the order of two_mers.
RECURSIVE CountLoop(_, _, _, _, _)
CountLoop(seq, mers, lo, hi, dict) ==
    IF lo > hi THEN dict
    ELSE IF lo = hi THEN DictSet(dict, mers[lo], StrCount(seq, mers[lo]))
    ELSE LET mid == (lo + hi) \div 2
             left == CountLoop(seq, mers, lo, mid, dict)
         IN  IF Len(left.keys) >= 0 THEN CountLoop(seq, mers, mid + 1, hi, left) ELSE left

count_two_mers(seq, mers) == CountLoop(seq, mers, 1, Len(mers), EmptyDict)

-----------------------------------------------------------------------------
(* read_fastas_from_file, read_fastas_from_directory *)

\* A record of a sequence file: SeqRecord.id and SeqRecord.seq
Records == [id : Ids, seq : SampleSeqs]

\* What SeqIO.parse does on a file: it yields records, in order, and then either ends
\* or raises (fails); a file that cannot be opened yields nothing and raises.
Files == [records : SeqsUpTo(Records, MaxFileRecords), fails : BOOLEAN]

\* the for loop of read_fastas_from_file: fastas.append(record) until the parser ends or raises
RECURSIVE ParseLoop(_, _, _)
ParseLoop(file, i, acc) ==
    IF i > Len(file.records)
    THEN [raised |-> file.fails, fastas |-> acc]
    ELSE ParseLoop(file, i + 1, Append(acc, file.records[i]))

\* a reader that returns what it had parsed when the parser raised
read_fastas_from_file_partial(file) == ParseLoop(file, 1, <<>>).fastas

read_fastas_from_file(file) ==
    LET r == ParseLoop(file, 1, <<>>)
    IN  IF r.raised THEN <<>> ELSE r.fastas

-----------------------------------------------------------------------------
(* construct_dataframe *)

\* for fasta in fastas: dictionary[fasta.id] = count_two_mers(fasta.seq, two_mers)
RECURSIVE FastaLoop(_, _, _, _)
FastaLoop(mers, fs, i, dict) ==
    IF i > Len(fs) THEN dict
    ELSE FastaLoop(mers, fs, i + 1,
                   DictSet(dict, fs[i].id, count_two_mers(fs[i].seq, mers)))

Range(q) == { q[i] : i \in 1..Len(q) }

\* the column labels pandas collects from the inner dicts: each key where it first appears
RECURSIVE ColumnsOf(_, _, _)
ColumnsOf(dict, i, cols) ==
    IF i > Len(dict.keys) THEN cols
    ELSE LET seen == Range(cols)
             more == SelectSeq(dict.vals[dict.keys[i]].keys, LAMBDA k : k \notin seen)
         IN  ColumnsOf(dict, i + 1, cols \o more)

Reverse(q) == [i \in 1..Len(q) |-> q[Len(q) + 1 - i]]

\* a frame whose columns come in the reverse of the order the keys were met in
from_dict_reversed_columns(dict) ==
    LET columns == Reverse(ColumnsOf(dict, 1, <<>>))
    IN  [index   |-> dict.keys,
         columns |-> columns,
         data    |-> [i \in 1..Len(dict.keys) |->
                        [j \in 1..Len(columns) |->
                            LET inner == dict.vals[dict.keys[i]]
                            IN  IF columns[j] \in DOMAIN inner.vals
                                THEN inner.vals[columns[j]] ELSE -1]]]

\* pd.DataFrame.from_dict(dictionary, orient='index'): a row per key of the outer dict, in
\* its order, a column per key of the inner dicts; a cell an inner dict lacks is NaN (-1)
from_dict(dict) ==
    LET columns == ColumnsOf(dict, 1, <<>>)
    IN  [index   |-> dict.keys,
         columns |-> columns,
         data    |-> [i \in 1..Len(dict.keys) |->
                        [j \in 1..Len(columns) |->
                            LET inner == dict.vals[dict.keys[i]]
                            IN  IF columns[j] \in DOMAIN inner.vals
                                THEN inner.vals[columns[j]] ELSE -1]]]

construct_dataframe(mers, fs) == from_dict(FastaLoop(mers, fs, 1, EmptyDict))

-----------------------------------------------------------------------------
(* make_prediction and the rest of start() *)

\* the column label 'prediction'
PredictionLabel == <<"p","r","e","d","i","c","t","i","o","n">>

\* What the model artifact can do on a frame of n rows: fail to load, fail in predict, or
\* return an array of labels (a classifier returns one label per row; arrays of another
\* length stand for an artifact that is not one)
ModelOutcomes(n) ==
    { [kind |-> k, labels |-> <<>>] : k \in {"load_failed", "predict_failed"} }
    \cup { [kind |-> "ok", labels |-> l] :
             l \in [1..n -> Labels] \cup { [i \in 1..(n - 1) |-> 0], [i \in 1..(n + 1) |-> 0] } }

\* a make_prediction that catches the failure and answers 0 for every row
make_prediction_swallowing(frame, outcome) ==
    [raised  |-> FALSE,
     loaded  |-> outcome.kind # "load_failed",
     calls   |-> IF outcome.kind = "load_failed" THEN <<>> ELSE <<frame>>,
     labels  |-> IF outcome.kind = "ok" THEN outcome.labels
                 ELSE [i \in 1..Len(frame.index) |-> 0]]

\* make_prediction(df): load the model, call predict once on df, return what it returns;
\* an exception of load or predict is not caught
make_prediction(frame, outcome) ==
    [raised  |-> outcome.kind # "ok",
     loaded  |-> outcome.kind # "load_failed",
     calls   |-> IF outcome.kind = "load_failed" THEN <<>> ELSE <<frame>>,
     labels  |-> outcome.labels]

IndexOf(q, x) == CHOOSE i \in 1..Len(q) : q[i] = x

\* an assignment that writes the values over the last column of the frame
SetColumnOverLast(frame, label, values) ==
    IF Len(values) # Len(frame.index)
    THEN [raised |-> TRUE, frame |-> frame]
    ELSE [raised |-> FALSE,
          frame  |->
            [index   |-> frame.index,
             columns |-> [frame.columns EXCEPT ![Len(frame.columns)] = label],
             data    |-> [i \in 1..Len(frame.index) |->
                            [frame.data[i] EXCEPT ![Len(frame.columns)] = values[i]]]]]

\* frame[label] = values: pandas raises ValueError when the lengths differ, replaces the
\* column when the frame has it, and adds it as the last column otherwise
SetColumn(frame, label, values) ==
    IF Len(values) # Len(frame.index)
    THEN [raised |-> TRUE, frame |-> frame]
    ELSE [raised |-> FALSE,
          frame  |->
            IF label \in Range(frame.columns)
            THEN LET c == IndexOf(frame.columns, label)
                 IN  [frame EXCEPT !.data =
                        [i \in 1..Len(frame.index) |-> [frame.data[i] EXCEPT ![c] = values[i]]]]
            ELSE [index   |-> frame.index,
                  columns |-> Append(frame.columns, label),
                  data    |-> [i \in 1..Len(frame.index) |-> Append(frame.data[i], values[i])]]]

\* a result whose labels come in the reverse of the row order
ResultRowsReversed(frame, label) ==
    LET c == IndexOf(frame.columns, label)
        n == Len(frame.index)
    IN  [i \in 1..n |-> <<frame.index[i], frame.data[n + 1 - i][c]>>]

\* pd.DataFrame(frame[label]).to_csv(output, index=True): a row (row label, value) per row
ResultRows(frame, label) ==
    LET c == IndexOf(frame.columns, label)
    IN  [i \in 1..Len(frame.index) |-> <<frame.index[i], frame.data[i][c]>>]

\* a test that never finds the list empty
NoFastasNever(fs) == Len(fs) < 0

\* len(fastas) == 0
NoFastas(fs) == Len(fs) = 0

-----------------------------------------------------------------------------
NoDF == [index |-> <<>>, columns |-> <<>>, data |-> <<>>]
NoOutput == [written |-> FALSE, rows |-> <<>>]

\* count_two_mers called alone, on any sequence
InitCount ==
    /\ sequence \in SeqsUpTo(SeqChars, MaxSeqLen)
    /\ dictionary = EmptyDict
    /\ cpc = "two_mers"
    /\ pc = "idle"
    /\ kind = "file"
    /\ fastas = <<>>
    /\ expected = <<>>
    /\ partial_seen = FALSE
    /\ two_mers = <<>>
    /\ df = NoDF
    /\ model_outcome = "none"
    /\ model_loaded = FALSE
    /\ predict_arg = <<>>
    /\ prediction = <<>>
    /\ predicted = FALSE
    /\ error = "none"
    /\ output = NoOutput

CallStringTwoMers ==
    /\ cpc = "two_mers"
    /\ two_mers' = string_two_mers
    /\ cpc' = "count"
    /\ UNCHANGED <<pc, kind, fastas, expected, partial_seen, df, model_outcome,
                   model_loaded, predict_arg, prediction, predicted, error, output,
                   sequence, dictionary>>

CallCountTwoMers ==
    /\ cpc = "count"
    /\ dictionary' = count_two_mers(sequence, two_mers)
    /\ cpc' = "counted"
    /\ UNCHANGED <<pc, kind, fastas, expected, partial_seen, two_mers, df, model_outcome,
                   model_loaded, predict_arg, prediction, predicted, error, output,
                   sequence>>

NextCount == CallStringTwoMers \/ CallCountTwoMers

SpecCount == InitCount /\ [][NextCount]_vars

-----------------------------------------------------------------------------
(* A run of start(source, output) *)

Init ==
    /\ pc = "get_fastas"
    /\ kind \in {"file", "dir"}
    /\ fastas = <<>>
    /\ expected = <<>>
    /\ partial_seen = FALSE
    /\ two_mers = <<>>
    /\ df = NoDF
    /\ model_outcome = "none"
    /\ model_loaded = FALSE
    /\ predict_arg = <<>>
    /\ prediction = <<>>
    /\ predicted = FALSE
    /\ error = "none"
    /\ output = NoOutput
    /\ sequence = <<>>
    /\ dictionary = EmptyDict
    /\ cpc = "idle"

\* what a file that parsed contributes, as the history records it
Complete(file) == IF file.fails THEN <<>> ELSE file.records
FailedMidway(file) == file.fails /\ Len(file.records) > 0

\* get_fastas, source a file: fastas = read_fastas_from_file(source)
GetFastasFile ==
    /\ pc = "get_fastas" /\ kind = "file"
    /\ \E file \in Files :
         /\ fastas' = read_fastas_from_file(file)
         /\ expected' = Complete(file)
         /\ partial_seen' = FailedMidway(file)
    /\ pc' = "check"
    /\ UNCHANGED <<kind, two_mers, df, model_outcome, model_loaded, predict_arg,
                   prediction, predicted, error, output, sequence, dictionary, cpc>>

\* os.listdir(directory) raises (source is neither a file nor a directory)
ListdirFails ==
    /\ pc = "get_fastas" /\ kind = "dir"
    /\ fastas = <<>> /\ ~partial_seen
    /\ error' = "listdir"
    /\ pc' = "raised"
    /\ UNCHANGED <<kind, fastas, expected, partial_seen, two_mers, df, model_outcome,
                   model_loaded, predict_arg, prediction, predicted, output,
                   sequence, dictionary, cpc>>

\* one turn of the loop of read_fastas_from_directory:
\* fastas += read_fastas_from_file(os.path.join(directory, filename))
ReadDirectoryEntry ==
    /\ pc = "get_fastas" /\ kind = "dir"
    /\ \E file \in Files :
         /\ Len(fastas) + Len(file.records) <= MaxRecords
         /\ fastas' = fastas \o read_fastas_from_file(file)
         /\ expected' = expected \o Complete(file)
         /\ partial_seen' = (partial_seen \/ FailedMidway(file))
    /\ UNCHANGED <<pc, kind, two_mers, df, model_outcome, model_loaded, predict_arg,
                   prediction, predicted, error, output, sequence, dictionary, cpc>>

\* the listing is exhausted: read_fastas_from_directory returns fastas
EndOfDirectory ==
    /\ pc = "get_fastas" /\ kind = "dir"
    /\ pc' = "check"
    /\ UNCHANGED <<kind, fastas, expected, partial_seen, two_mers, df, model_outcome,
                   model_loaded, predict_arg, prediction, predicted, error, output,
                   sequence, dictionary, cpc>>

\* if(len(fastas) == 0): print("No fasta records found."); return
NoRecords ==
    /\ pc = "check"
    /\ NoFastas(fastas)
    /\ pc' = "returned"
    /\ UNCHANGED <<kind, fastas, expected, partial_seen, two_mers, df, model_outcome,
                   model_loaded, predict_arg, prediction, predicted, error, output,
                   sequence, dictionary, cpc>>

\* two_mers = string_two_mers(); two_mer_df = construct_dataframe(two_mers, fastas)
BuildFeatures ==
    /\ pc = "check"
    /\ ~NoFastas(fastas)
    /\ two_mers' = string_two_mers
    /\ df' = construct_dataframe(string_two_mers, fastas)
    /\ pc' = "predict"
    /\ UNCHANGED <<kind, fastas, expected, partial_seen, model_outcome, model_loaded,
                   predict_arg, prediction, predicted, error, output,
                   sequence, dictionary, cpc>>

\* prediction = make_prediction(two_mer_df)
MakePrediction ==
    /\ pc = "predict"
    /\ \E outcome \in ModelOutcomes(Len(df.index)) :
         LET r == make_prediction(df, outcome)
         IN  /\ model_outcome' = outcome.kind
             /\ model_loaded' = r.loaded
             /\ predict_arg' = r.calls
             /\ IF r.raised
                THEN /\ pc' = "raised"
                     /\ error' = outcome.kind
                     /\ UNCHANGED <<prediction, predicted>>
                ELSE /\ pc' = "attach"
                     /\ prediction' = r.labels
                     /\ predicted' = TRUE
                     /\ UNCHANGED error
    /\ UNCHANGED <<kind, fastas, expected, partial_seen, two_mers, df, output,
                   sequence, dictionary, cpc>>

\* two_mer_df['prediction'] = prediction
AttachPrediction ==
    /\ pc = "attach"
    /\ LET r == SetColumn(df, PredictionLabel, prediction)
       IN  IF r.raised
           THEN /\ pc' = "raised"
                /\ error' = "length"
                /\ UNCHANGED df
           ELSE /\ pc' = "write"
                /\ df' = r.frame
                /\ UNCHANGED error
    /\ UNCHANGED <<kind, fastas, expected, partial_seen, two_mers, model_outcome,
                   model_loaded, predict_arg, prediction, predicted, output,
                   sequence, dictionary, cpc>>

\* result = pd.DataFrame(two_mer_df['prediction']); result.to_csv(output, ...);
\* the destination may be one that cannot be opened for writing
WriteResult ==
    /\ pc = "write"
    /\ \E writable \in BOOLEAN :
         IF writable
         THEN /\ output' = [written |-> TRUE, rows |-> ResultRows(df, PredictionLabel)]
              /\ pc' = "done"
              /\ UNCHANGED error
         ELSE /\ pc' = "raised"
              /\ error' = "write"
              /\ UNCHANGED output
    /\ UNCHANGED <<kind, fastas, expected, partial_seen, two_mers, df, model_outcome,
                   model_loaded, predict_arg, prediction, predicted,
                   sequence, dictionary, cpc>>

Next ==
    \/ GetFastasFile
    \/ ListdirFails
    \/ ReadDirectoryEntry
    \/ EndOfDirectory
    \/ NoRecords
    \/ BuildFeatures
    \/ MakePrediction
    \/ AttachPrediction
    \/ WriteResult

Spec == Init /\ [][Next]_vars

-----------------------------------------------------------------------------
(* Properties *)

\* the amino-acid characters
AlphabetChars == { LETTERS[i][1] : i \in 1..Len(LETTERS) }

\* the positions at which the dyad d occurs in s
Occurrences(s, d) == { p \in 1..(Len(s) - 1) : <<s[p], s[p + 1]>> = d }

\* the occurrences a left-to-right scan takes: an occurrence is taken exactly when the
\* position before it was not (a taken occurrence consumes the next position too)
Taken(s, d) ==
    CHOOSE G \in SUBSET Occurrences(s, d) :
        \A p \in Occurrences(s, d) : (p \in G) <=> ((p - 1) \notin G)

\* the windows of s made of two amino-acid characters
CleanWindows(s) ==
    { p \in 1..(Len(s) - 1) : s[p] \in AlphabetChars /\ s[p + 1] \in AlphabetChars }

\* C1: for every sequence (empty, or with characters outside the alphabet) and every
\* dyad d of the Feature Space, count_two_mers(sequence, two_mers)[d] is the number of
\* occurrences of d a left-to-right scan takes when each match consumes two
\* positions: "AA" counts 1 in "AAA" (also when a foreign character follows) and 2 in
\* "AAAA", and no window holding a foreign character is counted (the counts of
\* all dyads together are at most the windows made of two amino-acid characters,
\* and all are 0 when there is no such window).
InvC1 ==
    cpc = "counted" =>
        /\ dictionary.keys = two_mers
        /\ \A k \in 1..Len(two_mers) :
             dictionary.vals[two_mers[k]] = Cardinality(Taken(sequence, two_mers[k]))
        /\ (sequence = <<"A","A","A","A">> => dictionary.vals[<<"A","A">>] = 2)
        /\ (sequence \in { <<"A","A","A">>, <<"A","A","A","X">> }
              => dictionary.vals[<<"A","A">>] = 1)
        /\ LET counted == UNION { { <<k, n>> : n \in 1..dictionary.vals[two_mers[k]] } :
                                  k \in 1..Len(two_mers) }
           IN  Cardinality(counted) <= Cardinality(CleanWindows(sequence))
        /\ (CleanWindows(sequence) = {} =>
              \A k \in 1..Len(two_mers) : dictionary.vals[two_mers[k]] = 0)

WitC1 ==
    /\ cpc = "counted"
    /\ sequence = <<"A","A","A","X">>
    /\ dictionary.vals[<<"A","A">>] = 1

\* C2: string_two_mers() returns 400 pairwise distinct 2-character strings over the
\* 20-letter alphabet, the entry at index 20*i + j (from 0) being letter i followed by
\* letter j; every call returns this list.
InvC2 ==
    two_mers # <<>> =>
        /\ Len(LETTERS) = 20
        /\ Cardinality(AlphabetChars) = 20
        /\ Len(two_mers) = 400
        /\ Cardinality({ two_mers[k] : k \in 1..Len(two_mers) }) = 400
        /\ \A k \in 1..Len(two_mers) :
             /\ Len(two_mers[k]) = 2
             /\ two_mers[k][1] \in AlphabetChars
             /\ two_mers[k][2] \in AlphabetChars
        /\ \A i \in 0..19 : \A j \in 0..19 :
             two_mers[20 * i + j + 1] = <<LETTERS[i + 1][1], LETTERS[j + 1][1]>>

WitC2 ==
    /\ cpc = "count"
    /\ Len(two_mers) = 400
    /\ two_mers[2] = <<"A","C">>
    /\ two_mers[21] = <<"C","A">>

\* the count of every Feature Space dyad, in Feature Space order, in each sequence a
\* record can carry
DyadCounts ==
    [s \in SampleSeqs |->
        [j \in 1..Len(string_two_mers) |-> StrCount(s, string_two_mers[j])]]

\* the Feature Matrix as construct_dataframe returned it is in df
MatrixBuilt ==
    \/ pc \in {"predict", "attach"}
    \/ pc = "raised" /\ error \in {"load_failed", "predict_failed", "length"}

\* the sequence of the last record of fastas that carries the identifier id
LastSeqOf(id) ==
    LET at == { i \in 1..Len(fastas) : fastas[i].id = id }
        last == CHOOSE i \in at : \A j \in at : j <= i
    IN  fastas[last].seq

\* C3: for a non-empty list of records the Feature Matrix has exactly the Feature
\* Space dyads as columns, in Feature Space order, every row being that wide, whatever
\* the records are; every cell is a non-negative integer, the count of its column's
\* dyad in its row's sequence.
InvC3 ==
    MatrixBuilt =>
        /\ df.columns = string_two_mers
        /\ Len(df.data) = Len(df.index)
        /\ \A i \in 1..Len(df.index) :
             /\ Len(df.data[i]) = Len(string_two_mers)
             /\ \E r \in 1..Len(fastas) : fastas[r].id = df.index[i]
             /\ \A j \in 1..Len(string_two_mers) : df.data[i][j] \in Nat
             /\ df.data[i] = DyadCounts[LastSeqOf(df.index[i])]

WitC3 ==
    /\ pc = "predict"
    /\ Len(df.index) = 2
    /\ df.data[1] # df.data[2]
    /\ df.data[1][2] = 3

\* C4: for every list of N records (two of which may carry one identifier) the Feature
\* Matrix has exactly N rows, row i labelled with the identifier of record i and holding
\* its counts, and the output table has one row per record in discovery order.
InvC4 ==
    /\ MatrixBuilt =>
         /\ Len(df.index) = Len(fastas)
         /\ \A i \in 1..Len(fastas) :
              /\ df.index[i] = fastas[i].id
              /\ df.data[i] = DyadCounts[fastas[i].seq]
    /\ pc = "done" =>
         /\ Len(output.rows) = Len(fastas)
         /\ \A i \in 1..Len(fastas) : output.rows[i][1] = fastas[i].id

\* C5: in a run that writes output the classifier was invoked exactly once, on the full
\* Feature Matrix; there are as many predictions as rows; written row i pairs the
\* identifier of matrix row i with prediction i.
InvC5 ==
    pc = "done" =>
        /\ output.written
        /\ Len(predict_arg) = 1
        /\ predict_arg[1] = construct_dataframe(string_two_mers, fastas)
        /\ Len(prediction) = Len(predict_arg[1].index)
        /\ Len(output.rows) = Len(predict_arg[1].index)
        /\ \A i \in 1..Len(output.rows) :
             output.rows[i] = <<predict_arg[1].index[i], prediction[i]>>

WitC5 ==
    /\ pc = "done"
    /\ output.rows = << <<"P2", 0>>, <<"P1", 1>> >>

\* C6: when the source yields zero records in all, start() returns without raising and
\* the model is never loaded, the classifier never invoked, the output never written;
\* the output is written only when a record was found and the classifier returned.
InvC6 ==
    /\ (pc # "get_fastas" /\ error # "listdir" /\ Len(fastas) = 0) =>
         /\ pc \in {"check", "returned"}
         /\ (pc = "check" => ENABLED NoRecords /\ ~ENABLED BuildFeatures)
         /\ error = "none"
         /\ model_outcome = "none"
         /\ ~model_loaded
         /\ predict_arg = <<>>
         /\ ~predicted
         /\ ~output.written
    /\ output.written => (Len(fastas) > 0 /\ predicted /\ Len(predict_arg) = 1)

WitC6 ==
    /\ pc = "returned"
    /\ kind = "dir"
    /\ partial_seen
    /\ ~output.written

\* C7: a file whose parsing fails, even after some of its records were parsed,
\* contributes no record and the failure does not leave the reader; the aggregate list
\* is the concatenation, in listing order, of the complete lists of the files that parsed.
InvC7 ==
    /\ fastas = expected
    /\ (pc = "raised" => error # "none")
    /\ (pc = "get_fastas" => error = "none")
    /\ (pc = "get_fastas" /\ kind = "dir" => ENABLED EndOfDirectory)

WitC7 ==
    /\ pc = "check"
    /\ kind = "dir"
    /\ partial_seen
    /\ Len(fastas) = 2

\* C8: when loading the model or invoking the classifier fails, the failure leaves
\* start(): no output is written and no record receives a prediction.
InvC8 ==
    model_outcome \in {"load_failed", "predict_failed"} =>
        /\ pc = "raised"
        /\ error = model_outcome
        /\ ~output.written
        /\ output.rows = <<>>
        /\ ~predicted
        /\ prediction = <<>>
        /\ PredictionLabel \notin Range(df.columns)

WitC8 ==
    /\ pc = "raised"
    /\ model_outcome = "predict_failed"
    /\ model_loaded
    /\ Len(fastas) = 2

\* C9: records sharing an identifier are not rejected and raise nothing; the feature
\* vector kept for the identifier, scored and reported once, is the count vector of the
\* last such record in discovery order.
InvC9 ==
    /\ (pc \in {"predict", "attach", "write", "done"} \/ (pc = "raised" /\ error # "listdir")) =>
         \A r \in 1..Len(fastas) :
            /\ Cardinality({ i \in 1..Len(df.index) : df.index[i] = fastas[r].id }) = 1
            /\ LET i == IndexOf(df.index, fastas[r].id)
               IN  SubSeq(df.data[i], 1, Len(string_two_mers)) = DyadCounts[LastSeqOf(fastas[r].id)]
    /\ pc = "raised" => error \in {"listdir", "load_failed", "predict_failed", "length", "write"}
    /\ pc = "done" =>
         \A r \in 1..Len(fastas) :
            Cardinality({ i \in 1..Len(output.rows) : output.rows[i][1] = fastas[r].id }) = 1

WitC9 ==
    /\ pc = "done"
    /\ Len(fastas) = 2
    /\ fastas[1].id = fastas[2].id
    /\ fastas[1].seq = <<"A","C","A","C","A","C">>
    /\ fastas[2].seq = <<"G","G","G","G","G","G">>
    /\ df.data[1][2] = 0

\* C10: attaching the predictions adds one column, 'prediction', after the 400 dyad
\* columns and changes no dyad cell, row label, row order or dyad column; prediction
\* leaves the matrix as it was, and the record list and the Feature Space list do not
\* change once built.
PropC10 ==
    [][ /\ (pc = "attach" /\ pc' = "write") =>
             /\ df'.index = df.index
             /\ df'.columns = Append(df.columns, PredictionLabel)
             /\ Len(df'.data) = Len(df.data)
             /\ \A i \in 1..Len(df.index) : df'.data[i] = Append(df.data[i], prediction[i])
        /\ (pc \in {"predict", "write"} \/ pc' = "raised") => df' = df
        /\ pc # "get_fastas" => fastas' = fastas
        /\ two_mers # <<>> => two_mers' = two_mers
      ]_vars

WitC10 ==
    /\ pc = "write"
    /\ Len(df.index) = 2
    /\ df.columns = Append(string_two_mers, PredictionLabel)
    /\ df.data[1][401] = 1

====
